---------------------------- MODULE Spec2Model ----------------------------
(***************************************************************************)
(* Actuarial engine of the insurance calculators:                          *)
(*   life-insurance-calculators/insurance_calcv2.py      (prefix v2_)      *)
(*   Life Insurance Calculator/insurance_library.py      (prefix lib_)     *)
(*   Life Insurance Calculator/life_insurance_calculator.py (prefix term_) *)
(*                                                                         *)
(* Probabilities, rates and endowment premiums are exact rationals <<n,d>> *)
(* (d > 0, lowest terms), so that equalities of the real-number algorithm  *)
(* are decided exactly.  The monetary part of the term solver, which uses  *)
(* fractional powers, is computed in fixed point with FScale units per 1.  *)
(***************************************************************************)
EXTENDS Integers, Sequences, FiniteSets, TLC

(***************************************************************************)
(* Bounds of the model.                                                    *)
(***************************************************************************)
\* ages offered to the solvers are 0..MaxAge
MaxAge == 3
\* term lengths offered to the term solver are 0..MaxTerm
MaxTerm == 3

\* ages that have a column in the loaded CSV row (ages 0 and MaxAge have none)
TableAges == {1, 2}
Ages == 0..MaxAge
TermLengths == 0..MaxTerm

(***************************************************************************)
(* Exact rational arithmetic (the real-number reading of Python floats).   *)
(***************************************************************************)
RECURSIVE GCD(_, _)
GCD(a, b) == IF b = 0 THEN a ELSE GCD(b, a % b)

Abs(x) == IF x < 0 THEN -x ELSE x

Rat(n, d) ==
    LET s == IF d < 0 THEN -1 ELSE 1
        g == GCD(Abs(n), Abs(d))
    IN  <<(s * n) \div g, (s * d) \div g>>

Zero == <<0, 1>>
One == <<1, 1>>
Half == <<1, 2>>
Int2Rat(k) == <<k, 1>>

RAdd(a, b) ==
    LET g == GCD(a[2], b[2])
        l == (a[2] \div g) * b[2]
    IN  Rat(a[1] * (l \div a[2]) + b[1] * (l \div b[2]), l)
RNeg(a) == <<-a[1], a[2]>>
RSub(a, b) == RAdd(a, RNeg(b))
RMul(a, b) ==
    LET g1 == GCD(Abs(a[1]), b[2])
        g2 == GCD(Abs(b[1]), a[2])
    IN  Rat((a[1] \div g1) * (b[1] \div g2), (a[2] \div g2) * (b[2] \div g1))
\* defined for b # Zero only; every use is guarded by the caller
RDiv(a, b) == RMul(a, Rat(b[2], b[1]))
RLt(a, b) == a[1] * b[2] < b[1] * a[2]
RLe(a, b) == a[1] * b[2] <= b[1] * a[2]
RECURSIVE RPow(_, _)
RPow(b, k) == IF k = 0 THEN One ELSE RMul(b, RPow(b, k - 1))

(***************************************************************************)
(* Python values and call outcomes.                                        *)
(***************************************************************************)
PyNone == [t |-> "None", v |-> Zero]
PyNum(r) == [t |-> "num", v |-> r]
PyUnit == [t |-> "tuple0", v |-> Zero]

\* a call either returns a tuple of values or raises at a source line
Return(vals) == [kind |-> "return", vals |-> vals, exc |-> "", line |-> 0]
Raise(e, l) == [kind |-> "raise", vals |-> <<>>, exc |-> e, line |-> l]
NoResult == [kind |-> "none", vals |-> <<>>, exc |-> "", line |-> 0]


(***************************************************************************)
(* The loaded mortality data: load_death_probabilities returns None or a   *)
(* dict {'female': row, 'male': row}; a row is a pandas Series whose index *)
(* labels are the CSV column names, i.e. the ages as strings.              *)
(***************************************************************************)
\* a null cell of the CSV row (pd.notna is False for it)
NaN == <<0, 0>>
Vals == {Zero, Half, One, NaN}
isna(v) == v = NaN

\* str(age)
Str(a) == ToString(a)
Labels == {Str(a) : a \in TableAges}
Rows == [Labels -> Vals]
AgeOf(l) == CHOOSE a \in TableAges : Str(a) = l
LoAge == CHOOSE a \in TableAges : \A b \in TableAges : a <= b
HiAge == CHOOSE a \in TableAges : \A b \in TableAges : b <= a
\* the same row read in the opposite age order
Mirror(row) == [l \in Labels |-> row[Str(LoAge + HiAge - AgeOf(l))]]

NoneData == [loaded |-> FALSE, dict |-> <<>>]
DictData(f, m) == [loaded |-> TRUE, dict |-> [k \in {"female", "male"} |-> IF k = "female" THEN f ELSE m]]
\* what the loader can hand to the engine: None, or a dict of two rows.  The
\* male row is the female row in the opposite age order, so that the rows of
\* the two genders differ and each of them ranges over every row.
LoadedData == {NoneData} \cup {DictData(f, Mirror(f)) : f \in Rows}

Genders == {"female", "male", "Male", "other"}
\* str(gender).lower()
lower(g) == IF g = "Male" THEN "male" ELSE g

\* a candidate index label tried by the lookup loop: a str or an int
StrKey(s) == [t |-> "str", s |-> s, n |-> 0]
IntKey(n) == [t |-> "int", s |-> "", n |-> n]
\* lookup in data.index : the index holds strings only
InIndex(k, row) == k.t = "str" /\ k.s \in DOMAIN row

(***************************************************************************)
(* get_death_probability, insurance_calcv2.py                              *)
(***************************************************************************)
\* the for-loop over (str(age), None, age), from position i on
RECURSIVE v2_series_lookup(_, _, _)
v2_series_lookup(row, lookups, i) ==
    IF i > Len(lookups) THEN Zero
    ELSE IF InIndex(lookups[i], row) /\ ~isna(row[lookups[i].s])
         THEN row[lookups[i].s]
         ELSE v2_series_lookup(row, lookups, i + 1)

v2_get_death_probability(data, age, gender) ==
    IF ~data.loaded THEN Return(<<PyNum(Zero)>>)
    ELSE LET key == lower(gender) IN
         IF key \in DOMAIN data.dict
         THEN Return(<<PyNum(v2_series_lookup(data.dict[key], <<StrKey(Str(age)), IntKey(age)>>, 1))>>)
         ELSE IF "female" \in DOMAIN data.dict
              \* data.get('female') or ... : truth value of a Series
              THEN Raise("ValueError", 88)
              ELSE IF "male" \in DOMAIN data.dict
                   THEN Return(<<PyNum(v2_series_lookup(data.dict["male"], <<StrKey(Str(age)), IntKey(age)>>, 1))>>)
                   \* data is None here: len(None) fails inside the try
                   ELSE Return(<<PyNum(Zero)>>)

(***************************************************************************)
(* get_death_probability, insurance_library.py                             *)
(***************************************************************************)
RECURSIVE lib_series_lookup(_, _, _)
lib_series_lookup(row, lookups, i) ==
    IF i > Len(lookups) THEN Zero
    ELSE IF InIndex(lookups[i], row) /\ ~isna(row[lookups[i].s])
         THEN row[lookups[i].s]
         ELSE lib_series_lookup(row, lookups, i + 1)

lib_get_death_probability(data, age, gender) ==
    IF ~data.loaded THEN Return(<<PyNum(Zero)>>)
    ELSE LET key == lower(gender) IN
         IF key \in DOMAIN data.dict
         THEN Return(<<PyNum(lib_series_lookup(data.dict[key], <<StrKey(Str(age)), IntKey(age)>>, 1))>>)
         ELSE IF "female" \in DOMAIN data.dict
              THEN Raise("ValueError", 56)
              ELSE IF "male" \in DOMAIN data.dict
                   THEN Return(<<PyNum(lib_series_lookup(data.dict["male"], <<StrKey(Str(age)), IntKey(age)>>, 1))>>)
                   ELSE Return(<<PyNum(Zero)>>)

(***************************************************************************)
(* get_death_probability, life_insurance_calculator.py                     *)
(***************************************************************************)
term_get_death_probability(data, age, gender) ==
    IF ~data.loaded THEN Return(<<PyNum(Zero)>>)
    ELSE LET g == IF gender = "male" THEN "male" ELSE "female" IN
         IF g \notin DOMAIN data.dict THEN Raise("KeyError", IF g = "male" THEN 53 ELSE 55)
         ELSE IF Str(age) \notin DOMAIN data.dict[g] THEN Raise("KeyError", 56)
         ELSE LET prob == data.dict[g][Str(age)] IN
              Return(<<PyNum(IF ~isna(prob) THEN prob ELSE Zero)>>)

(***************************************************************************)
(* accumulated_annuity                                                      *)
(***************************************************************************)
\* v2_accumulated_annuity with 1 - i for 1 + i in the ordinary formula
v2_accumulated_annuity_discounting(periods, i, type) ==
    IF type = 1
    THEN IF i = Zero THEN Raise("ZeroDivisionError", 32)
         ELSE Return(<<PyNum(RDiv(RSub(RPow(RSub(One, i), periods), One), i))>>)
    ELSE IF type = 2
    THEN IF i = Zero THEN Raise("ZeroDivisionError", 34)
         ELSE IF RSub(One, RDiv(One, i)) = Zero THEN Raise("ValueError", 34)
         ELSE Return(<<PyNum(RDiv(RSub(RPow(RAdd(One, i), periods), One),
                                   RDiv(One, RSub(One, RDiv(One, i)))))>>)
    ELSE Return(<<PyNum(Zero)>>)

v2_accumulated_annuity(periods, i, type) ==
    IF type = 1
    THEN IF i = Zero THEN Raise("ZeroDivisionError", 32)
         ELSE Return(<<PyNum(RDiv(RSub(RPow(RAdd(One, i), periods), One), i))>>)
    ELSE IF type = 2
    THEN IF i = Zero THEN Raise("ZeroDivisionError", 34)
         \* math.pow(0.0, -1) is a math domain error
         ELSE IF RSub(One, RDiv(One, i)) = Zero THEN Raise("ValueError", 34)
         ELSE Return(<<PyNum(RDiv(RSub(RPow(RAdd(One, i), periods), One),
                                   RDiv(One, RSub(One, RDiv(One, i)))))>>)
    ELSE Return(<<PyNum(Zero)>>)

lib_accumulated_annuity(periods, i, type) ==
    IF type = 1
    THEN IF i = Zero THEN Raise("ZeroDivisionError", 9)
         ELSE Return(<<PyNum(RDiv(RSub(RPow(RAdd(One, i), periods), One), i))>>)
    ELSE IF type = 2
    THEN IF i = Zero THEN Raise("ZeroDivisionError", 11)
         ELSE IF RSub(One, RDiv(One, i)) = Zero THEN Raise("ValueError", 11)
         ELSE Return(<<PyNum(RDiv(RSub(RPow(RAdd(One, i), periods), One),
                                   RDiv(One, RSub(One, RDiv(One, i)))))>>)
    ELSE Return(<<PyUnit>>)


(***************************************************************************)
(* Inputs offered to the operations.                                       *)
(***************************************************************************)
Rates == {Zero, Half, One}
Payouts == {1, 5}
Premiums == {Zero, One, <<2, 1>>}

(***************************************************************************)
(* State.                                                                  *)
(***************************************************************************)
VARIABLES
    death_data,   \* the value load_death_probabilities returns (cached)
    op,           \* the function being executed, "" when none
    pc,           \* "idle", "loop" (at the head of the for loop), "done"
    args,         \* the arguments of the running call
    loc,          \* the local variables of the running call
    result        \* the outcome of the last finished call

vars == <<death_data, op, pc, args, loc, result>>

NoArgs ==
    [current_age |-> 0, payout_age |-> 0, interest |-> Zero, payout |-> 0,
     gender |-> "", premium |-> Zero, age |-> 0, coverage_amount |-> 0,
     term_length |-> 0, smoker |-> FALSE, health_rating |-> "", type |-> 0]

NoLoc ==
    [x |-> 0, prob_death_given_age_is_x |-> Zero, prob_death_and_age_is_x |-> Zero,
     prob_age_is_x |-> Zero, death_cdf |-> Zero, weighted_total_annuity |-> Zero,
     expected_claims |-> 0, survival_probability |-> Zero,
     cumulative_death_prob |-> Zero, death_prob |-> Zero]

Init ==
    /\ death_data \in LoadedData
    /\ op = ""
    /\ pc = "idle"
    /\ args = NoArgs
    /\ loc = NoLoc
    /\ result = NoResult

\* the call finished with outcome r
Finish(r) ==
    /\ pc' = "done"
    /\ result' = r

(***************************************************************************)
(* calculate_premium, insurance_calcv2.py (endowment)                      *)
(***************************************************************************)
v2_calculate_premium_Call ==
    /\ pc = "idle"
    /\ \E ca \in Ages, pa \in Ages, i \in Rates, po \in Payouts, g \in Genders :
         args' = [NoArgs EXCEPT !.current_age = ca, !.payout_age = pa,
                                !.interest = i, !.payout = po, !.gender = g]
    /\ op' = "v2_calculate_premium"
    /\ IF ~death_data.loaded
       THEN /\ Finish(Return(<<PyNone, PyNone>>))
            /\ loc' = NoLoc
       ELSE /\ pc' = "loop"
            /\ result' = NoResult
            /\ loc' = [NoLoc EXCEPT !.x = args'.current_age,
                                    !.prob_death_given_age_is_x = Zero,
                                    !.prob_death_and_age_is_x = Zero,
                                    !.prob_age_is_x = One,
                                    !.death_cdf = Zero,
                                    !.weighted_total_annuity = Zero]
    /\ UNCHANGED death_data

\* v2_weight without the branch of the last age
v2_weight_every_age_alike(evaluation_age, payout_age, prob_age_is_x, prob_death_given_age_is_x) ==
    RMul(prob_age_is_x, prob_death_given_age_is_x)

\* the weight of the evaluation age: the year's deaths, or every survivor at the last age
v2_weight(evaluation_age, payout_age, prob_age_is_x, prob_death_given_age_is_x) ==
    IF evaluation_age < payout_age - 1
    THEN RMul(prob_age_is_x, prob_death_given_age_is_x)
    ELSE prob_age_is_x

\* one pass through the body of the for loop: the locals after it and, when
\* the body raises, the exception
v2_premium_body(l, a, data) ==
    LET alive == RMul(RSub(One, l.prob_death_given_age_is_x), l.prob_age_is_x)
        l1 == [l EXCEPT !.prob_age_is_x = alive]
        r == v2_get_death_probability(data, l.x, a.gender)
    IN  IF r.kind = "raise" THEN [loc |-> l1, exc |-> r]
        ELSE
        LET q == r.vals[1].v
            w == v2_weight(l.x, a.payout_age, alive, q)
            l2 == [l1 EXCEPT !.prob_death_given_age_is_x = q,
                             !.prob_death_and_age_is_x = w,
                             !.death_cdf = RAdd(l.death_cdf, w)]
            an == v2_accumulated_annuity(l.x - a.current_age, a.interest, 1)
        IN  IF an.kind = "raise" THEN [loc |-> l2, exc |-> an]
            ELSE [loc |-> [l2 EXCEPT !.weighted_total_annuity =
                                        RAdd(l.weighted_total_annuity, RMul(an.vals[1].v, w)),
                                     !.x = l.x + 1],
                  exc |-> NoResult]

v2_calculate_premium_Step ==
    /\ pc = "loop"
    /\ op = "v2_calculate_premium"
    /\ loc.x < args.payout_age
    /\ LET b == v2_premium_body(loc, args, death_data) IN
         /\ loc' = b.loc
         /\ IF b.exc.kind = "raise" THEN Finish(b.exc) ELSE UNCHANGED <<pc, result>>
    /\ UNCHANGED <<death_data, op, args>>

\* premium = payout / weighted_total_annuity if weighted_total_annuity > 0 else 0
v2_premium_result(payout, weighted_total_annuity, death_cdf) ==
    Return(<<PyNum(IF RLt(Zero, weighted_total_annuity)
                   THEN RDiv(Int2Rat(payout), weighted_total_annuity)
                   ELSE Zero),
             PyNum(death_cdf)>>)

v2_calculate_premium_Return ==
    /\ pc = "loop"
    /\ op = "v2_calculate_premium"
    /\ loc.x >= args.payout_age
    /\ Finish(v2_premium_result(args.payout, loc.weighted_total_annuity, loc.death_cdf))
    /\ UNCHANGED <<death_data, op, args, loc>>

(***************************************************************************)
(* calculate_risk_tolerance, insurance_calcv2.py                           *)
(***************************************************************************)
v2_calculate_risk_tolerance_Call ==
    /\ pc = "idle"
    /\ \E pr \in Premiums, ca \in Ages, pa \in Ages, i \in Rates, po \in Payouts, g \in Genders :
         args' = [NoArgs EXCEPT !.premium = pr, !.current_age = ca, !.payout_age = pa,
                                !.interest = i, !.payout = po, !.gender = g]
    /\ op' = "v2_calculate_risk_tolerance"
    /\ IF ~death_data.loaded
       THEN /\ Finish(Return(<<PyNum(Zero)>>))
            /\ loc' = NoLoc
       ELSE /\ pc' = "loop"
            /\ result' = NoResult
            /\ loc' = [NoLoc EXCEPT !.x = args'.current_age,
                                    !.death_cdf = Zero,
                                    !.prob_death_given_age_is_x = Zero,
                                    !.prob_age_is_x = One]
    /\ UNCHANGED death_data

\* v2_exceeds with s >= payout for s > payout
v2_exceeds_or_equals(s, payout) == RLe(Int2Rat(payout), s)

\* s > payout
v2_exceeds(s, payout) == RLt(Int2Rat(payout), s)

\* one pass through the loop body: the locals after it, the exception when it
\* raises, and whether it returned death_cdf from inside the loop
v2_risk_body(l, a, data) ==
    LET alive == RMul(RSub(One, l.prob_death_given_age_is_x), l.prob_age_is_x)
        l1 == [l EXCEPT !.prob_age_is_x = alive]
        r == v2_get_death_probability(data, l.x, a.gender)
    IN  IF r.kind = "raise" THEN [loc |-> l1, exc |-> r, returned |-> FALSE]
        ELSE
        LET q == r.vals[1].v
            w == RMul(alive, q)
            l2 == [l1 EXCEPT !.prob_death_given_age_is_x = q,
                             !.prob_death_and_age_is_x = w,
                             !.death_cdf = RAdd(l.death_cdf, w)]
            an == v2_accumulated_annuity(l.x - a.current_age, a.interest, 1)
        IN  IF an.kind = "raise" THEN [loc |-> l2, exc |-> an, returned |-> FALSE]
            ELSE IF v2_exceeds(RMul(a.premium, an.vals[1].v), a.payout)
                 THEN [loc |-> l2, exc |-> NoResult, returned |-> TRUE]
                 ELSE [loc |-> [l2 EXCEPT !.x = l.x + 1], exc |-> NoResult, returned |-> FALSE]

v2_calculate_risk_tolerance_Step ==
    /\ pc = "loop"
    /\ op = "v2_calculate_risk_tolerance"
    /\ loc.x < args.payout_age
    /\ LET b == v2_risk_body(loc, args, death_data) IN
         /\ loc' = b.loc
         /\ IF b.exc.kind = "raise" THEN Finish(b.exc)
            ELSE IF b.returned THEN Finish(Return(<<PyNum(b.loc.death_cdf)>>))
            ELSE UNCHANGED <<pc, result>>
    /\ UNCHANGED <<death_data, op, args>>

\* the statement after the for loop
v2_risk_fallthrough(death_cdf) == Return(<<PyNum(death_cdf)>>)

v2_calculate_risk_tolerance_Return ==
    /\ pc = "loop"
    /\ op = "v2_calculate_risk_tolerance"
    /\ loc.x >= args.payout_age
    /\ Finish(v2_risk_fallthrough(loc.death_cdf))
    /\ UNCHANGED <<death_data, op, args, loc>>

(***************************************************************************)
(* calculate_premium, insurance_library.py (endowment)                     *)
(***************************************************************************)
lib_calculate_premium_Call ==
    /\ pc = "idle"
    /\ \E ca \in Ages, pa \in Ages, i \in Rates, po \in Payouts, g \in Genders :
         args' = [NoArgs EXCEPT !.current_age = ca, !.payout_age = pa,
                                !.interest = i, !.payout = po, !.gender = g]
    /\ op' = "lib_calculate_premium"
    /\ pc' = "loop"
    /\ result' = NoResult
    /\ loc' = [NoLoc EXCEPT !.x = args'.current_age,
                            !.weighted_total_annuity = Zero,
                            !.prob_death_given_age_is_x = Zero,
                            !.prob_death_and_age_is_x = Zero,
                            !.prob_age_is_x = One,
                            !.death_cdf = Zero]
    /\ UNCHANGED death_data

\* lib_weight without the branch of the last age
lib_weight_every_age_alike(evaluation_age, payout_age, prob_age_is_x, prob_death_given_age_is_x) ==
    RMul(prob_age_is_x, prob_death_given_age_is_x)

lib_weight(evaluation_age, payout_age, prob_age_is_x, prob_death_given_age_is_x) ==
    IF evaluation_age < payout_age - 1
    THEN RMul(prob_age_is_x, prob_death_given_age_is_x)
    ELSE prob_age_is_x

lib_premium_body(l, a, data) ==
    LET alive == RMul(RSub(One, l.prob_death_given_age_is_x), l.prob_age_is_x)
        l1 == [l EXCEPT !.prob_age_is_x = alive]
        r == lib_get_death_probability(data, l.x, a.gender)
    IN  IF r.kind = "raise" THEN [loc |-> l1, exc |-> r]
        ELSE
        LET q == r.vals[1].v
            w == lib_weight(l.x, a.payout_age, alive, q)
            l2 == [l1 EXCEPT !.prob_death_given_age_is_x = q,
                             !.prob_death_and_age_is_x = w,
                             !.death_cdf = RAdd(l.death_cdf, w)]
            an == lib_accumulated_annuity(l.x - a.current_age, a.interest, 1)
        IN  IF an.kind = "raise" THEN [loc |-> l2, exc |-> an]
            ELSE [loc |-> [l2 EXCEPT !.weighted_total_annuity =
                                        RAdd(l.weighted_total_annuity, RMul(an.vals[1].v, w)),
                                     !.x = l.x + 1],
                  exc |-> NoResult]

lib_calculate_premium_Step ==
    /\ pc = "loop"
    /\ op = "lib_calculate_premium"
    /\ loc.x < args.payout_age
    /\ LET b == lib_premium_body(loc, args, death_data) IN
         /\ loc' = b.loc
         /\ IF b.exc.kind = "raise" THEN Finish(b.exc) ELSE UNCHANGED <<pc, result>>
    /\ UNCHANGED <<death_data, op, args>>

\* return (payout / weighted_total_annuity)
lib_premium_result(payout, weighted_total_annuity) ==
    IF weighted_total_annuity = Zero THEN Raise("ZeroDivisionError", 144)
    ELSE Return(<<PyNum(RDiv(Int2Rat(payout), weighted_total_annuity))>>)

lib_calculate_premium_Return ==
    /\ pc = "loop"
    /\ op = "lib_calculate_premium"
    /\ loc.x >= args.payout_age
    /\ Finish(lib_premium_result(args.payout, loc.weighted_total_annuity))
    /\ UNCHANGED <<death_data, op, args, loc>>

(***************************************************************************)
(* calculate_risk_tolerance, insurance_library.py                          *)
(***************************************************************************)
lib_calculate_risk_tolerance_Call ==
    /\ pc = "idle"
    /\ \E pr \in Premiums, ca \in Ages, pa \in Ages, i \in Rates, po \in Payouts, g \in Genders :
         args' = [NoArgs EXCEPT !.premium = pr, !.current_age = ca, !.payout_age = pa,
                                !.interest = i, !.payout = po, !.gender = g]
    /\ op' = "lib_calculate_risk_tolerance"
    /\ pc' = "loop"
    /\ result' = NoResult
    /\ loc' = [NoLoc EXCEPT !.x = args'.current_age,
                            !.death_cdf = Zero,
                            !.prob_death_given_age_is_x = Zero,
                            !.prob_death_and_age_is_x = Zero,
                            !.prob_age_is_x = One]
    /\ UNCHANGED death_data

lib_exceeds(s, payout) == RLt(Int2Rat(payout), s)

lib_risk_body(l, a, data) ==
    LET alive == RMul(RSub(One, l.prob_death_given_age_is_x), l.prob_age_is_x)
        l1 == [l EXCEPT !.prob_age_is_x = alive]
        r == lib_get_death_probability(data, l.x, a.gender)
    IN  IF r.kind = "raise" THEN [loc |-> l1, exc |-> r, returned |-> FALSE]
        ELSE
        LET q == r.vals[1].v
            w == RMul(alive, q)
            l2 == [l1 EXCEPT !.prob_death_given_age_is_x = q,
                             !.prob_death_and_age_is_x = w,
                             !.death_cdf = RAdd(l.death_cdf, w)]
            an == lib_accumulated_annuity(l.x - a.current_age, a.interest, 1)
        IN  IF an.kind = "raise" THEN [loc |-> l2, exc |-> an, returned |-> FALSE]
            ELSE IF lib_exceeds(RMul(a.premium, an.vals[1].v), a.payout)
                 THEN [loc |-> l2, exc |-> NoResult, returned |-> TRUE]
                 ELSE [loc |-> [l2 EXCEPT !.x = l.x + 1], exc |-> NoResult, returned |-> FALSE]

lib_calculate_risk_tolerance_Step ==
    /\ pc = "loop"
    /\ op = "lib_calculate_risk_tolerance"
    /\ loc.x < args.payout_age
    /\ LET b == lib_risk_body(loc, args, death_data) IN
         /\ loc' = b.loc
         /\ IF b.exc.kind = "raise" THEN Finish(b.exc)
            ELSE IF b.returned THEN Finish(Return(<<PyNum(b.loc.death_cdf)>>))
            ELSE UNCHANGED <<pc, result>>
    /\ UNCHANGED <<death_data, op, args>>

\* the function body ends after the for loop: the call evaluates to None
lib_risk_fallthrough(death_cdf) == Return(<<PyNone>>)

lib_calculate_risk_tolerance_Return ==
    /\ pc = "loop"
    /\ op = "lib_calculate_risk_tolerance"
    /\ loc.x >= args.payout_age
    /\ Finish(lib_risk_fallthrough(loc.death_cdf))
    /\ UNCHANGED <<death_data, op, args, loc>>

(***************************************************************************)
(* Fixed-point arithmetic for the monetary part of the term solver:        *)
(* a number v is held as the integer floor(v * FScale).                    *)
(***************************************************************************)
FRoot == 100
FScale == FRoot * FRoot
ToFixed(r) == (r[1] * FScale) \div r[2]
FromFixed(f) == Rat(f, FScale)
FMul(a, b) == (a \div FScale) * b + ((a % FScale) * b) \div FScale
\* defined for b > 0 only; every use is guarded by the caller
FDiv(a, b) ==
    LET q0 == a \div b
        r0 == a % b
        q1 == (r0 * FRoot) \div b
        r1 == (r0 * FRoot) % b
        q2 == (r1 * FRoot) \div b
    IN  q0 * FScale + q1 * FRoot + q2
RECURSIVE FPow(_, _)
FPow(b, k) == IF k = 0 THEN FScale ELSE FMul(b, FPow(b, k - 1))
\* the largest r in lo..hi with r * r <= u
RECURSIVE FSqrtIn(_, _, _)
FSqrtIn(u, lo, hi) ==
    IF lo >= hi THEN lo
    ELSE LET mid == (lo + hi + 1) \div 2 IN
         IF mid * mid <= u THEN FSqrtIn(u, mid, hi) ELSE FSqrtIn(u, lo, mid - 1)
\* the largest r in lo..hi with r ** k <= u
RECURSIVE FRootIn(_, _, _, _)
FRootIn(u, k, lo, hi) ==
    IF lo >= hi THEN lo
    ELSE LET mid == (lo + hi + 1) \div 2 IN
         IF FPow(mid, k) <= u THEN FRootIn(u, k, mid, hi) ELSE FRootIn(u, k, lo, mid - 1)

(***************************************************************************)
(* calculate_premium, life_insurance_calculator.py (term)                  *)
(***************************************************************************)
health_factors ==
    [r \in {"Preferred Plus (Excellent)", "Preferred (Good)", "Standard (Average)",
            "Substandard (Below Average)"} |->
        CASE r = "Preferred Plus (Excellent)" -> <<7, 10>>
          [] r = "Preferred (Good)" -> One
          [] r = "Standard (Average)" -> <<7, 5>>
          [] r = "Substandard (Below Average)" -> <<2, 1>>]
smoker_factor == <<5, 2>>
discount_rate == <<3, 100>>
profit_margin == <<5, 4>>
expense_loading == 100
minimum_premium == 10

\* the label get_insurance_inputs makes of the menu choice
cli_health_rating(health_choice) ==
    CASE health_choice = "1" -> "Excellent"
      [] health_choice = "2" -> "Good"
      [] health_choice = "3" -> "Average"
      [] health_choice = "4" -> "Poor"
      [] OTHER -> "Average"

\* the ratings a caller passes: the options of the web form, the labels of the prompt
HealthRatings == DOMAIN health_factors \cup {cli_health_rating(c) : c \in {"1", "2", "3", "4", ""}}
Coverages == {1, 50}

\* (1 + discount_rate) ** (-(year + 0.5)), in fixed point
discount_factor(year) ==
    LET b == ToFixed(RDiv(One, RAdd(One, discount_rate)))
    IN  FSqrtIn(FMul(FPow(b, 2 * year), b) * FScale, 0, FScale)

\* (1 + discount_rate) ** (1/12) - 1, in fixed point
monthly_discount_rate ==
    LET u == ToFixed(RAdd(One, discount_rate)) IN FRootIn(u, 12, FScale, u) - FScale

\* (1 - (1 + monthly_discount_rate) ** (-num_payments)) / monthly_discount_rate
annuity_pv(num_payments) ==
    FDiv(FScale - FDiv(FScale, FPow(FScale + monthly_discount_rate, num_payments)),
         monthly_discount_rate)

term_calculate_premium_Call ==
    /\ pc = "idle"
    /\ \E a \in Ages, g \in Genders, c \in Coverages, t \in TermLengths,
          sm \in BOOLEAN, h \in HealthRatings :
         args' = [NoArgs EXCEPT !.age = a, !.gender = g, !.coverage_amount = c,
                                !.term_length = t, !.smoker = sm, !.health_rating = h]
    /\ op' = "term_calculate_premium"
    /\ IF ~death_data.loaded
       THEN /\ Finish(Return(<<PyNum(Zero), PyNum(Zero)>>))
            /\ loc' = NoLoc
       ELSE /\ pc' = "loop"
            /\ result' = NoResult
            /\ loc' = [NoLoc EXCEPT !.x = 0,
                                    !.expected_claims = 0,
                                    !.survival_probability = One,
                                    !.cumulative_death_prob = Zero]
    /\ UNCHANGED death_data

\* term_adjust with the health loading in an else branch of the smoker test
term_adjust_either_loading(death_prob, smoker, health_factor) ==
    IF smoker THEN RMul(death_prob, smoker_factor) ELSE RMul(death_prob, health_factor)

\* the base probability with the smoker and the health loading applied
term_adjust(death_prob, smoker, health_factor) ==
    RMul(IF smoker THEN RMul(death_prob, smoker_factor) ELSE death_prob, health_factor)

\* term_premium_body with the survival update using the base probability of
\* the table instead of the adjusted one
term_premium_body_base_survival(l, a, data) ==
    LET r == term_get_death_probability(data, a.age + l.x, a.gender)
    IN  IF r.kind = "raise" THEN [loc |-> l, exc |-> r]
        ELSE IF a.health_rating \notin DOMAIN health_factors
        THEN [loc |-> [l EXCEPT !.death_prob =
                          IF a.smoker THEN RMul(r.vals[1].v, smoker_factor) ELSE r.vals[1].v],
              exc |-> Raise("KeyError", 88)]
        ELSE
        LET death_prob == term_adjust(r.vals[1].v, a.smoker, health_factors[a.health_rating])
            death_this_year == RMul(l.survival_probability, death_prob)
        IN  [loc |-> [l EXCEPT !.death_prob = death_prob,
                               !.cumulative_death_prob = RAdd(l.cumulative_death_prob, death_this_year),
                               !.expected_claims = l.expected_claims +
                                   FMul(ToFixed(death_this_year) * a.coverage_amount, discount_factor(l.x)),
                               !.survival_probability =
                                   RMul(l.survival_probability, RSub(One, r.vals[1].v)),
                               !.x = l.x + 1],
             exc |-> NoResult]

\* one pass through the body of the year loop (l.x is year)
term_premium_body(l, a, data) ==
    LET r == term_get_death_probability(data, a.age + l.x, a.gender)
    IN  IF r.kind = "raise" THEN [loc |-> l, exc |-> r]
        ELSE IF a.health_rating \notin DOMAIN health_factors
        THEN [loc |-> [l EXCEPT !.death_prob =
                          IF a.smoker THEN RMul(r.vals[1].v, smoker_factor) ELSE r.vals[1].v],
              exc |-> Raise("KeyError", 88)]
        ELSE
        LET death_prob == term_adjust(r.vals[1].v, a.smoker, health_factors[a.health_rating])
            death_this_year == RMul(l.survival_probability, death_prob)
        IN  [loc |-> [l EXCEPT !.death_prob = death_prob,
                               !.cumulative_death_prob = RAdd(l.cumulative_death_prob, death_this_year),
                               !.expected_claims = l.expected_claims +
                                   FMul(ToFixed(death_this_year) * a.coverage_amount, discount_factor(l.x)),
                               !.survival_probability =
                                   RMul(l.survival_probability, RSub(One, death_prob)),
                               !.x = l.x + 1],
             exc |-> NoResult]

term_calculate_premium_Step ==
    /\ pc = "loop"
    /\ op = "term_calculate_premium"
    /\ loc.x < args.term_length
    /\ LET b == term_premium_body(loc, args, death_data) IN
         /\ loc' = b.loc
         /\ IF b.exc.kind = "raise" THEN Finish(b.exc) ELSE UNCHANGED <<pc, result>>
    /\ UNCHANGED <<death_data, op, args>>

Max(a, b) == IF a >= b THEN a ELSE b

\* term_premium_result without the expense loading
term_premium_result_unloaded(expected_claims, term_length, cumulative_death_prob) ==
    LET pv == annuity_pv(term_length * 12) IN
    IF pv = 0 THEN Raise("ZeroDivisionError", 111)
    ELSE LET monthly_premium == FDiv(FMul(expected_claims, ToFixed(profit_margin)), pv)
         IN  Return(<<PyNum(FromFixed(Max(monthly_premium, minimum_premium * FScale))),
                      PyNum(RMul(cumulative_death_prob, Int2Rat(100)))>>)

\* the statements after the year loop
term_premium_result(expected_claims, term_length, cumulative_death_prob) ==
    LET pv == annuity_pv(term_length * 12) IN
    IF pv = 0 THEN Raise("ZeroDivisionError", 111)
    ELSE LET monthly_premium == FDiv(FMul(expected_claims, ToFixed(profit_margin)), pv)
                                  + expense_loading * FScale
         IN  Return(<<PyNum(FromFixed(Max(monthly_premium, minimum_premium * FScale))),
                      PyNum(RMul(cumulative_death_prob, Int2Rat(100)))>>)

term_calculate_premium_Return ==
    /\ pc = "loop"
    /\ op = "term_calculate_premium"
    /\ loc.x >= args.term_length
    /\ Finish(term_premium_result(loc.expected_claims, args.term_length, loc.cumulative_death_prob))
    /\ UNCHANGED <<death_data, op, args, loc>>

(***************************************************************************)
(* Direct calls of the lookups and of accumulated_annuity.                 *)
(***************************************************************************)
AnnuityTypes == {1, 2, 3}

\* v2_get_death_probability_Call storing the default 0.0 in a null cell it met
v2_get_death_probability_Call_filling ==
    /\ pc = "idle"
    /\ \E a \in Ages, g \in Genders :
         /\ args' = [NoArgs EXCEPT !.age = a, !.gender = g]
         /\ Finish(v2_get_death_probability(death_data, a, g))
         /\ death_data' =
              IF death_data.loaded /\ lower(g) \in DOMAIN death_data.dict
                 /\ Str(a) \in DOMAIN death_data.dict[lower(g)]
                 /\ isna(death_data.dict[lower(g)][Str(a)])
              THEN [death_data EXCEPT !.dict[lower(g)][Str(a)] = Zero]
              ELSE death_data
    /\ op' = "v2_get_death_probability"
    /\ UNCHANGED loc

v2_get_death_probability_Call ==
    /\ pc = "idle"
    /\ \E a \in Ages, g \in Genders :
         /\ args' = [NoArgs EXCEPT !.age = a, !.gender = g]
         /\ Finish(v2_get_death_probability(death_data, a, g))
    /\ op' = "v2_get_death_probability"
    /\ UNCHANGED <<death_data, loc>>

lib_get_death_probability_Call ==
    /\ pc = "idle"
    /\ \E a \in Ages, g \in Genders :
         /\ args' = [NoArgs EXCEPT !.age = a, !.gender = g]
         /\ Finish(lib_get_death_probability(death_data, a, g))
    /\ op' = "lib_get_death_probability"
    /\ UNCHANGED <<death_data, loc>>

term_get_death_probability_Call ==
    /\ pc = "idle"
    /\ \E a \in Ages, g \in Genders :
         /\ args' = [NoArgs EXCEPT !.age = a, !.gender = g]
         /\ Finish(term_get_death_probability(death_data, a, g))
    /\ op' = "term_get_death_probability"
    /\ UNCHANGED <<death_data, loc>>

v2_accumulated_annuity_Call ==
    /\ pc = "idle"
    /\ \E n \in Ages, i \in Rates, t \in AnnuityTypes :
         /\ args' = [NoArgs EXCEPT !.term_length = n, !.interest = i, !.type = t]
         /\ Finish(v2_accumulated_annuity(n, i, t))
    /\ op' = "v2_accumulated_annuity"
    /\ UNCHANGED <<death_data, loc>>

lib_accumulated_annuity_Call ==
    /\ pc = "idle"
    /\ \E n \in Ages, i \in Rates, t \in AnnuityTypes :
         /\ args' = [NoArgs EXCEPT !.term_length = n, !.interest = i, !.type = t]
         /\ Finish(lib_accumulated_annuity(n, i, t))
    /\ op' = "lib_accumulated_annuity"
    /\ UNCHANGED <<death_data, loc>>

(***************************************************************************)
(* The caller takes the outcome; the engine is ready for the next call.    *)
(***************************************************************************)
NextCall ==
    /\ pc = "done"
    /\ pc' = "idle"
    /\ op' = ""
    /\ args' = NoArgs
    /\ loc' = NoLoc
    /\ result' = NoResult
    /\ UNCHANGED death_data

Next ==
    \/ v2_calculate_premium_Call
    \/ v2_calculate_premium_Step
    \/ v2_calculate_premium_Return
    \/ v2_calculate_risk_tolerance_Call
    \/ v2_calculate_risk_tolerance_Step
    \/ v2_calculate_risk_tolerance_Return
    \/ lib_calculate_premium_Call
    \/ lib_calculate_premium_Step
    \/ lib_calculate_premium_Return
    \/ lib_calculate_risk_tolerance_Call
    \/ lib_calculate_risk_tolerance_Step
    \/ lib_calculate_risk_tolerance_Return
    \/ term_calculate_premium_Call
    \/ term_calculate_premium_Step
    \/ term_calculate_premium_Return
    \/ v2_get_death_probability_Call
    \/ lib_get_death_probability_Call
    \/ term_get_death_probability_Call
    \/ v2_accumulated_annuity_Call
    \/ lib_accumulated_annuity_Call
    \/ NextCall

Spec == Init /\ [][Next]_vars


(***************************************************************************)
(* Closed forms the claims are stated with, for the running call.          *)
(***************************************************************************)
EndowOps == {"v2_calculate_premium", "lib_calculate_premium"}
RiskOps == {"v2_calculate_risk_tolerance", "lib_calculate_risk_tolerance"}
LookupOps == {"v2_get_death_probability", "lib_get_death_probability", "term_get_death_probability"}

\* the table entry of (gender, age), NaN when the row has no such label
Entry(data, gender, age) ==
    IF Str(age) \in DOMAIN data.dict[gender] THEN data.dict[gender][Str(age)] ELSE NaN
\* the death probability of the age: "no data" counts as zero risk
DeathProb(data, gender, age) ==
    IF ~data.loaded \/ isna(Entry(data, gender, age)) THEN Zero ELSE Entry(data, gender, age)
\* alive(a): the probability of being alive at the start of age a
RECURSIVE Alive(_, _, _, _)
Alive(data, gender, from, a) ==
    IF a <= from THEN One
    ELSE RMul(Alive(data, gender, from, a - 1), RSub(One, DeathProb(data, gender, a - 1)))
\* the sum of alive(x) * death_prob(x) over x in from..a
RECURSIVE CumDeath(_, _, _, _)
CumDeath(data, gender, from, a) ==
    IF a < from THEN Zero
    ELSE RAdd(CumDeath(data, gender, from, a - 1),
              RMul(Alive(data, gender, from, a), DeathProb(data, gender, a)))
\* ((1 + rate) ^ periods - 1) / rate, for rate # 0
AccumulatedValue(periods, rate) == RDiv(RSub(RPow(RAdd(One, rate), periods), One), rate)
\* premium * accumulated_value(a - issue_age) > payout
Crosses(a) ==
    RLt(Int2Rat(args.payout), RMul(args.premium, AccumulatedValue(a - args.current_age, args.interest)))
CrossingAges == {a \in args.current_age .. (args.payout_age - 1) : Crosses(a)}
FirstCrossing == CHOOSE a \in CrossingAges : \A b \in CrossingAges : a <= b
KnownGender == lower(args.gender) \in {"female", "male"}
\* every entry of the table gives a zero death probability
ZeroTable(data) ==
    data.loaded /\ \A g \in DOMAIN data.dict : \A l \in DOMAIN data.dict[g] : data.dict[g][l] \in {Zero, NaN}

(***************************************************************************)
(* Claims.                                                                 *)
(***************************************************************************)
\* the for loop of the running endowment call ran through every age
EndowLoopCompleted == op \in EndowOps /\ loc.x >= args.payout_age

\* C1: for issue_age < maturity_age, once the endowment loop has run over
\* issue_age..maturity_age-1 the accumulated death_cdf is exactly 1 (in both
\* implementations), and the death_cdf insurance_calcv2 returns is 1.
C1_DeathCdfIsOne ==
    /\ (EndowLoopCompleted /\ args.current_age < args.payout_age) => loc.death_cdf = One
    /\ (op = "v2_calculate_premium" /\ pc = "done" /\ result.kind = "return"
          /\ death_data.loaded /\ args.current_age < args.payout_age)
       => result.vals[2] = PyNum(One)

\* C1 witness: a finished solve over two table ages with a death probability of
\* 1/2 at the first age: half of the mass is the survivors' weight at the last age.
C1_Witness ==
    /\ op = "v2_calculate_premium" /\ pc = "done" /\ result.kind = "return"
    /\ args.payout_age - args.current_age >= 2
    /\ loc.prob_death_and_age_is_x = Half
    /\ loc.prob_death_given_age_is_x = Half
    /\ result.vals[2] = PyNum(One)

\* C2 (as claimed): with an all-zero table the returned premium satisfies
\* premium * accumulated_value(maturity_age - issue_age, rate) = payout
\* (stated here for policies of two years or more).
C2_PremiumTimesAnnuityIsPayout ==
    (op \in EndowOps /\ pc = "done" /\ result.kind = "return" /\ ZeroTable(death_data)
        /\ args.payout_age - args.current_age >= 2 /\ args.interest # Zero)
    => RMul(result.vals[1].v, AccumulatedValue(args.payout_age - args.current_age, args.interest))
         = Int2Rat(args.payout)

\* C3 (as claimed): with an all-zero table a returned monthly premium is 10.
C3_ZeroTablePremiumIsTen ==
    (op = "term_calculate_premium" /\ pc = "done" /\ result.kind = "return" /\ ZeroTable(death_data))
    => result.vals[1] = PyNum(Int2Rat(minimum_premium))

\* the ages age..age+term_length-1 all have a column in the table
TermAgesInTable == \A y \in 0 .. (args.term_length - 1) : (args.age + y) \in TableAges

\* C3 (amended): with an all-zero table that has an entry for every age of the
\* term, term_length >= 1 and a health rating of the rating map, the term solver
\* returns the fixed expense loading, 100, as the monthly premium (and 0 percent).
C3_ZeroTablePremiumIsExpenseLoading ==
    (op = "term_calculate_premium" /\ pc = "done" /\ ZeroTable(death_data)
        /\ args.term_length >= 1 /\ TermAgesInTable
        /\ args.health_rating \in DOMAIN health_factors)
    => result = Return(<<PyNum(Int2Rat(expense_loading)), PyNum(Zero)>>)

\* C3 witness: a two-year smoker's term solve on an all-zero table returned 100.
C3_Witness ==
    /\ op = "term_calculate_premium" /\ pc = "done" /\ ZeroTable(death_data)
    /\ args.term_length = 2 /\ args.smoker /\ loc.x = 2
    /\ args.health_rating = "Preferred (Good)"
    /\ result.kind = "return" /\ result.vals[1] = PyNum(Int2Rat(100))

\* C4 (as claimed): with no table loaded, a solver never returns a numeric premium.
C4_MissingTableIsFailure ==
    (op \in EndowOps \cup {"term_calculate_premium"} /\ pc = "done" /\ ~death_data.loaded)
    => ~(result.kind = "return" /\ result.vals[1].t = "num")

\* C5 (as claimed): a lookup of a known gender whose row has no entry for the
\* age, or a null entry, returns 0.0 and does not raise.
C5_MissingEntryIsZero ==
    (op \in LookupOps /\ pc = "done" /\ death_data.loaded /\ args.gender \in {"female", "male"}
        /\ isna(Entry(death_data, args.gender, args.age)))
    => result = Return(<<PyNum(Zero)>>)

\* C6 (as claimed): when no age of the range crosses, calculate_risk_tolerance
\* returns the full-horizon cumulative death probability.
C6_NoCrossingReturnsFullHorizon ==
    (op \in RiskOps /\ pc = "done" /\ result.kind = "return" /\ KnownGender
        /\ args.interest # Zero /\ args.current_age < args.payout_age /\ CrossingAges = {})
    => result.vals[1] = PyNum(CumDeath(death_data, lower(args.gender), args.current_age, args.payout_age - 1))

\* C7: when some age of the range crosses, calculate_risk_tolerance never
\* advances past the first crossing age, and what it returns is the sum of
\* alive(x) * death_prob(x) over x from issue_age up to and including that age.
C7_StopsAtFirstCrossing ==
    (op \in RiskOps /\ KnownGender /\ args.interest # Zero /\ CrossingAges # {})
    => /\ (pc = "loop" \/ death_data.loaded) => loc.x <= FirstCrossing
       /\ pc = "done" =>
            result = Return(<<PyNum(CumDeath(death_data, lower(args.gender), args.current_age, FirstCrossing))>>)

\* C7 witness: a call returned at a first crossing that is neither the first nor
\* the last age of the range, with deaths before and after the crossing age.
C7_Witness ==
    /\ op \in RiskOps /\ pc = "done" /\ result.kind = "return" /\ KnownGender
    /\ args.interest # Zero /\ CrossingAges # {}
    /\ FirstCrossing > args.current_age
    /\ FirstCrossing < args.payout_age - 1
    /\ loc.x = FirstCrossing
    /\ RLt(Zero, result.vals[1].v)
    /\ RLt(result.vals[1].v,
           CumDeath(death_data, lower(args.gender), args.current_age, args.payout_age - 1))

\* C8 (as claimed): when weighted_total_annuity <= 0 after the loop, the
\* endowment solver neither divides by zero nor returns a numeric premium.
C8_ZeroAnnuityIsFailure ==
    (EndowLoopCompleted /\ pc = "done" /\ death_data.loaded
        /\ args.current_age < args.payout_age
        /\ RLe(loc.weighted_total_annuity, Zero))
    => /\ ~(result.kind = "raise" /\ result.exc = "ZeroDivisionError")
       /\ ~(result.kind = "return" /\ result.vals[1].t = "num")

\* C9 (as claimed): with maturity_age <= issue_age the endowment solver and
\* calculate_risk_tolerance return an explicit failure, never a number.
C9_EmptyRangeIsRejected ==
    (op \in {"v2_calculate_premium", "lib_calculate_premium", "v2_calculate_risk_tolerance"}
        /\ pc = "done" /\ death_data.loaded /\ args.payout_age <= args.current_age)
    => ~(result.kind = "return" /\ result.vals[1].t = "num")

\* C10 (as claimed): a health rating outside the rating map is rejected before
\* the year loop; it never raises from inside the loop.
C10_UnknownRatingIsRejected ==
    (op = "term_calculate_premium" /\ pc = "done" /\ death_data.loaded
        /\ args.health_rating \notin DOMAIN health_factors)
    => ~(result.kind = "raise" /\ result.exc = "KeyError" /\ result.line = 88)

\* C11 (as claimed): a lookup in a loaded table with a gender that is not one
\* of its keys uses the 'female' row: it returns that row's probability for
\* the age (0.0 when the row has none) and does not fail.
C11_UnknownGenderUsesFemale ==
    (op \in {"v2_get_death_probability", "lib_get_death_probability"} /\ pc = "done"
        /\ death_data.loaded /\ lower(args.gender) \notin DOMAIN death_data.dict)
    => result = Return(<<PyNum(DeathProb(death_data, "female", args.age))>>)

\* the row the term solver reads for the gender of the running call
TermGender == IF args.gender = "male" THEN "male" ELSE "female"
\* the base death probability of year y of the running term call
TermBase(y) == DeathProb(death_data, TermGender, args.age + y)
\* the year loop of the running term call has completed at least one pass and
\* has not raised
TermYearCompleted ==
    /\ op = "term_calculate_premium" /\ pc \in {"loop", "done"} /\ death_data.loaded
    /\ loc.x >= 1 /\ result.kind # "raise"
    /\ args.health_rating \in DOMAIN health_factors

\* C12: the adjusted death probability of the year just processed is
\* base * smoker_factor * health_factor with smoker_factor 2.5 for a smoker and
\* 1 otherwise; applying the health factor first gives the same value, and a
\* smoker's value is 2.5 times the non-smoker's for the same base and rating.
C12_LoadingsComposeMultiplicatively ==
    TermYearCompleted =>
        LET base == TermBase(loc.x - 1)
            hf == health_factors[args.health_rating]
            sf == IF args.smoker THEN <<5, 2>> ELSE One
        IN  /\ loc.death_prob = RMul(RMul(base, sf), hf)
            /\ loc.death_prob = RMul(RMul(base, hf), sf)
            /\ args.smoker => loc.death_prob = RMul(<<5, 2>>, term_adjust(base, FALSE, hf))

\* C12 witness: a smoker rated Standard (Average) at an age with base 1/2:
\* 1/2 * 2.5 * 1.4 = 7/4.
C12_Witness ==
    /\ TermYearCompleted /\ args.smoker
    /\ args.health_rating = "Standard (Average)"
    /\ TermBase(loc.x - 1) = Half
    /\ loc.death_prob = <<7, 4>>

AnnuityOps == {"v2_accumulated_annuity", "lib_accumulated_annuity"}
\* accumulated_annuity as the implementation of the running call computes it
AnnuityOf(periods) ==
    IF op = "v2_accumulated_annuity"
    THEN v2_accumulated_annuity(periods, args.interest, args.type)
    ELSE lib_accumulated_annuity(periods, args.interest, args.type)

\* C13: for rate > 0 the ordinary accumulated annuity is strictly increasing in
\* periods: the value returned for periods p2 is greater than the value for
\* every p1 with 0 <= p1 < p2.
C13_AnnuityIncreasesWithPeriods ==
    (op \in AnnuityOps /\ pc = "done" /\ args.type = 1 /\ RLt(Zero, args.interest))
    => /\ result.kind = "return"
       /\ \A p1 \in 0 .. (args.term_length - 1) :
            /\ AnnuityOf(p1).kind = "return"
            /\ RLt(AnnuityOf(p1).vals[1].v, result.vals[1].v)

\* C13 witness: accumulated_annuity(3, 0.5, 1) = ((3/2)^3 - 1) / (1/2) = 19/4.
C13_Witness ==
    /\ op = "v2_accumulated_annuity" /\ pc = "done" /\ args.type = 1
    /\ args.interest = Half /\ args.term_length = 3
    /\ result = Return(<<PyNum(<<19, 4>>)>>)

\* C14 (as claimed): with an interest rate of 0 the endowment solver reports
\* the singular input as a result value; it does not end in a division by zero.
C14_ZeroRateIsFailureResult ==
    (op = "v2_calculate_premium" /\ pc = "done" /\ death_data.loaded /\ KnownGender
        /\ args.interest = Zero /\ args.current_age < args.payout_age)
    => /\ result.kind = "return"
       /\ ~(result.kind = "raise" /\ result.exc = "ZeroDivisionError")

\* C15: no operation of the engine changes the mortality table: in every step
\* the loaded data, hence every (gender, age) entry, keeps its value.
C15_TableUnchanged == [][death_data' = death_data]_vars

\* C15 witness: a lookup has met a null cell of a loaded table and returned 0.0.
C15_Witness ==
    /\ op = "v2_get_death_probability" /\ pc = "done" /\ death_data.loaded
    /\ args.gender = "male" /\ args.age \in TableAges
    /\ isna(death_data.dict["male"][Str(args.age)])
    /\ result = Return(<<PyNum(Zero)>>)

\* the locals of an endowment or break-even call at the head of its loop
LoopEntry(a) == [NoLoc EXCEPT !.x = a.current_age, !.prob_age_is_x = One]

\* a whole call of each function: the loop body repeated from the given locals
\* until the range is exhausted, the body raises or (break-even) it returns
RECURSIVE v2_premium_run(_, _, _)
v2_premium_run(l, a, data) ==
    IF ~data.loaded THEN Return(<<PyNone, PyNone>>)
    ELSE IF l.x >= a.payout_age
    THEN v2_premium_result(a.payout, l.weighted_total_annuity, l.death_cdf)
    ELSE LET b == v2_premium_body(l, a, data) IN
         IF b.exc.kind = "raise" THEN b.exc ELSE v2_premium_run(b.loc, a, data)

RECURSIVE lib_premium_run(_, _, _)
lib_premium_run(l, a, data) ==
    IF l.x >= a.payout_age
    THEN lib_premium_result(a.payout, l.weighted_total_annuity)
    ELSE LET b == lib_premium_body(l, a, data) IN
         IF b.exc.kind = "raise" THEN b.exc ELSE lib_premium_run(b.loc, a, data)

RECURSIVE v2_risk_run(_, _, _)
v2_risk_run(l, a, data) ==
    IF ~data.loaded THEN Return(<<PyNum(Zero)>>)
    ELSE IF l.x >= a.payout_age THEN v2_risk_fallthrough(l.death_cdf)
    ELSE LET b == v2_risk_body(l, a, data) IN
         IF b.exc.kind = "raise" THEN b.exc
         ELSE IF b.returned THEN Return(<<PyNum(b.loc.death_cdf)>>)
         ELSE v2_risk_run(b.loc, a, data)

RECURSIVE lib_risk_run(_, _, _)
lib_risk_run(l, a, data) ==
    IF l.x >= a.payout_age THEN lib_risk_fallthrough(l.death_cdf)
    ELSE LET b == lib_risk_body(l, a, data) IN
         IF b.exc.kind = "raise" THEN b.exc
         ELSE IF b.returned THEN Return(<<PyNum(b.loc.death_cdf)>>)
         ELSE lib_risk_run(b.loc, a, data)

\* C16: with a loaded table and weighted_total_annuity > 0 the premium a
\* finished endowment call returns is the premium the other implementation
\* computes for the same arguments; and when some age of the range crosses, the
\* value a finished calculate_risk_tolerance call returns is the value the other
\* implementation returns.
C16_ImplementationsAgree ==
    /\ (EndowLoopCompleted /\ pc = "done" /\ death_data.loaded
          /\ RLt(Zero, loc.weighted_total_annuity))
       => /\ result.kind = "return"
          /\ v2_premium_run(LoopEntry(args), args, death_data).kind = "return"
          /\ lib_premium_run(LoopEntry(args), args, death_data).kind = "return"
          /\ result.vals[1] = v2_premium_run(LoopEntry(args), args, death_data).vals[1]
          /\ result.vals[1] = lib_premium_run(LoopEntry(args), args, death_data).vals[1]
    /\ (op \in RiskOps /\ pc = "done" /\ result.kind = "return"
          /\ args.interest # Zero /\ CrossingAges # {})
       => /\ result = v2_risk_run(LoopEntry(args), args, death_data)
          /\ result = lib_risk_run(LoopEntry(args), args, death_data)

\* C16 witness: the library solver finished a solve over two table ages with
\* deaths at the first, and its premium is the one insurance_calcv2 computes.
C16_Witness ==
    /\ op = "lib_calculate_premium" /\ pc = "done" /\ result.kind = "return"
    /\ death_data.loaded /\ args.payout_age - args.current_age >= 2
    /\ loc.prob_death_and_age_is_x = Half
    /\ RLt(Zero, loc.weighted_total_annuity)
    /\ result.vals[1] = v2_premium_run(LoopEntry(args), args, death_data).vals[1]

\* the product over the years y < k of (1 - adjusted death probability of y)
RECURSIVE TermSurvival(_)
TermSurvival(k) ==
    IF k = 0 THEN One
    ELSE RMul(TermSurvival(k - 1),
              RSub(One, RMul(RMul(TermBase(k - 1), IF args.smoker THEN <<5, 2>> ELSE One),
                             health_factors[args.health_rating])))

\* C17: in a term solve, at the head of the year loop and after it,
\* cumulative_death_prob + survival_probability = 1, and the percentage
\* returned is 100 * (1 - product over the term years of (1 - adjusted death
\* probability)).
C17_ProbabilityMassIsConserved ==
    /\ (op = "term_calculate_premium" /\ pc \in {"loop", "done"} /\ death_data.loaded)
       => RAdd(loc.cumulative_death_prob, loc.survival_probability) = One
    /\ (op = "term_calculate_premium" /\ pc = "done" /\ death_data.loaded
          /\ result.kind = "return")
       => result.vals[2] =
            PyNum(RMul(Int2Rat(100), RSub(One, TermSurvival(args.term_length))))

\* C17 witness: a two-year solve with an adjusted death probability of 1/2 in
\* both years returned 75 percent.
C17_Witness ==
    /\ op = "term_calculate_premium" /\ pc = "done" /\ result.kind = "return"
    /\ args.term_length = 2 /\ loc.death_prob = Half
    /\ loc.survival_probability = <<1, 4>>
    /\ result.vals[2] = PyNum(Int2Rat(75))

\* C18 (as claimed): in a term solve the adjusted death probability and
\* survival_probability stay in [0, 1], and a returned cumulative death
\* probability lies in [0, 100] percent.
C18_ProbabilitiesStayInRange ==
    (op = "term_calculate_premium" /\ pc \in {"loop", "done"} /\ death_data.loaded
        /\ args.health_rating \in DOMAIN health_factors)
    => /\ RLe(Zero, loc.death_prob) /\ RLe(loc.death_prob, One)
       /\ RLe(Zero, loc.survival_probability) /\ RLe(loc.survival_probability, One)
       /\ result.kind = "return" =>
            /\ RLe(Zero, result.vals[2].v)
            /\ RLe(result.vals[2].v, Int2Rat(100))

=============================================================================
